---- MODULE Spec2Model ----
(***************************************************************************)
(* The moment aggregation and ranking of the comment explorer              *)
(* (src/das.py and src/das-mainpage.py): process_video parses a timestamp  *)
(* out of every comment, aggregate_timeline_comments clusters the          *)
(* timestamped comments into moments, and the page shows the best moment   *)
(* and the ten most liked moments.                                         *)
(*                                                                         *)
(* A comment is a row of the data frame df: its parsed timestamp (None     *)
(* when parse_timestamp found none) and its likeCount.  A member of a      *)
(* moment is row.to_dict(), a copy of one row; the model names it by the   *)
(* row's position in df, which determines that copy.                       *)
(***************************************************************************)
EXTENDS Integers, Sequences, FiniteSets

VARIABLES module, df, pc, timestamp_comments, pos, current_group,
          timeline_data, start_time, displayed, comments_list, first_call,
          top_moments, other, session_state, player, videos, clicked

vars == <<module, df, pc, timestamp_comments, pos, current_group,
          timeline_data, start_time, displayed, comments_list, first_call,
          top_moments, other, session_state, player, videos, clicked>>

\* the state outside one call of process_video: a second aggregation pass,
\* the session, the player on the page, the videos there are and the
\* timestamp button clicked last
rest_of_app == <<other, session_state, player, videos, clicked>>

(***************************************************************************)
(* Bounds of the explored inputs.                                          *)
(***************************************************************************)
MaxComments == 2
MaxTime == 6
MaxLikes == 1
MaxStair == 11
MaxGap == 7

(***************************************************************************)
(* Program constants.                                                      *)
(***************************************************************************)
None == -1
Tolerance == 5
TopN == 10
TitleN == 3

Modules == {"das", "das_mainpage"}

Min(a, b) == IF a <= b THEN a ELSE b

Abs(x) == IF x < 0 THEN -x ELSE x

\* the filter forgotten: every row is kept
NotNaUnfiltered(frame) == 1..Len(frame)

(***************************************************************************)
(* df[df['timestamp'].notna()]: the positions of the rows that carry a     *)
(* timestamp.                                                              *)
(***************************************************************************)
NotNa(frame) == {k \in 1..Len(frame) : frame[k].timestamp # None}

(***************************************************************************)
(* sort_values('timestamp') with pandas' default kind, quicksort, which is *)
(* not a stable sort: the result is ascending in timestamp, and rows with  *)
(* equal timestamps come in an order the numpy build decides.  Every       *)
(* ascending arrangement of the rows S is a possible outcome.              *)
(***************************************************************************)
RECURSIVE SortValues(_, _)
SortValues(frame, S) ==
    IF S = {} THEN {<<>>}
    ELSE LET least == {x \in S : \A y \in S : frame[x].timestamp <= frame[y].timestamp}
         IN  UNION {{<<x>> \o rest : rest \in SortValues(frame, S \ {x})} : x \in least}

\* the threshold made inclusive: a difference of exactly Tolerance opens a group
OpensGroupAtTolerance(timestamp, current) ==
    current = None \/ Abs(timestamp - current) >= Tolerance

(***************************************************************************)
(* The loop's test for opening a new group.                                *)
(***************************************************************************)
OpensGroup(timestamp, current) ==
    current = None \/ Abs(timestamp - current) > Tolerance

(***************************************************************************)
(* timeline_data is a defaultdict; the model keeps it as the sequence of   *)
(* its entries in insertion order (the order items() iterates in).         *)
(***************************************************************************)
DefaultMoment(key) ==
    [key |-> key, comments |-> <<>>, total_likes |-> 0, representative_time |-> 0]

HasKey(td, key) == \E k \in 1..Len(td) : td[k].key = key

\* a plain assignment instead of the defaultdict lookup: the entry is reset each time
TouchReset(td, key) ==
    IF HasKey(td, key)
    THEN [td EXCEPT ![CHOOSE k \in 1..Len(td) : td[k].key = key] = DefaultMoment(key)]
    ELSE Append(td, DefaultMoment(key))

\* timeline_data[key]: a missing key is inserted with the default factory's value
Touch(td, key) == IF HasKey(td, key) THEN td ELSE Append(td, DefaultMoment(key))

IndexOf(td, key) == CHOOSE k \in 1..Len(td) : td[k].key = key

(***************************************************************************)
(* Python's sort (list.sort and sorted) with reverse=True, over a sequence *)
(* of <<key, item>> pairs: descending in the key, stable, and reverse=True *)
(* keeps the order of equal keys.  Computed by insertion: each pair goes   *)
(* after every pair whose key is at least its own.                         *)
(***************************************************************************)
RECURSIVE InsertDesc(_, _)
InsertDesc(sorted, x) ==
    IF sorted = <<>> THEN <<x>>
    ELSE IF Head(sorted)[1] >= x[1]
         THEN <<Head(sorted)>> \o InsertDesc(Tail(sorted), x)
         ELSE <<x>> \o sorted

RECURSIVE SortDesc(_)
SortDesc(s) ==
    IF s = <<>> THEN <<>>
    ELSE InsertDesc(SortDesc(SubSeq(s, 1, Len(s) - 1)), s[Len(s)])

Items(pairs) == [k \in 1..Len(pairs) |-> pairs[k][2]]

\* an ascending sort read backwards: members with equal likeCount change places
SortCommentsBackwards(frame, comments) ==
    Items(SortDesc([k \in 1..Len(comments) |->
                       <<frame[comments[Len(comments) + 1 - k]].likeCount,
                         comments[Len(comments) + 1 - k]>>]))

\* comments.sort(key=lambda x: x['likeCount'], reverse=True)
SortComments(frame, comments) ==
    Items(SortDesc([k \in 1..Len(comments) |->
                       <<frame[comments[k]].likeCount, comments[k]>>]))

(***************************************************************************)
(* The body of the loop for one row: open a group or stay in the current   *)
(* one, append the row to the group's comments, add its likeCount, set     *)
(* representative_time and, in das.py only, sort the group's comments.     *)
(***************************************************************************)
NextGroup(timestamp, current) ==
    IF OpensGroup(timestamp, current) THEN timestamp ELSE current

\* = written for +=
AddLikesAssign(total, likes) == likes

AddLikes(total, likes) == total + likes

\* the sorted list cut to its most liked member
ResortGroupTopOnly(mod, frame, comments) ==
    IF mod = "das" THEN SubSeq(SortComments(frame, comments), 1, 1) ELSE comments

\* the sort of the group's comments left out
ResortGroupNever(mod, frame, comments) == comments

ResortGroup(mod, frame, comments) ==
    IF mod = "das" THEN SortComments(frame, comments) ELSE comments

\* representative_time taken from the row instead of the group
AddRowOwnTime(mod, frame, td, group, row) ==
    LET touched == Touch(td, group)
        k == IndexOf(touched, group)
        m == touched[k]
    IN  [touched EXCEPT ![k] =
            [key |-> m.key,
             comments |-> ResortGroup(mod, frame, Append(m.comments, row)),
             total_likes |-> AddLikes(m.total_likes, frame[row].likeCount),
             representative_time |-> frame[row].timestamp]]

AddRow(mod, frame, td, group, row) ==
    LET touched == Touch(td, group)
        k == IndexOf(touched, group)
        m == touched[k]
    IN  [touched EXCEPT ![k] =
            [key |-> m.key,
             comments |-> ResortGroup(mod, frame, Append(m.comments, row)),
             total_likes |-> AddLikes(m.total_likes, frame[row].likeCount),
             representative_time |-> group]]

(***************************************************************************)
(* max(timeline_data.items(), key=total_likes): the first item, in         *)
(* iteration order, among those with the greatest total_likes.             *)
(***************************************************************************)
\* >= for >: the last of the most liked items wins
RECURSIVE MaxByLikesLast(_)
MaxByLikesLast(td) ==
    IF Len(td) = 1 THEN td[1]
    ELSE LET best == MaxByLikesLast(SubSeq(td, 1, Len(td) - 1))
         IN  IF td[Len(td)].total_likes >= best.total_likes THEN td[Len(td)] ELSE best

RECURSIVE MaxByLikes(_)
MaxByLikes(td) ==
    IF Len(td) = 1 THEN td[1]
    ELSE LET best == MaxByLikes(SubSeq(td, 1, Len(td) - 1))
         IN  IF td[Len(td)].total_likes > best.total_likes THEN td[Len(td)] ELSE best

\* an ascending sort read backwards, which turns the order of equal keys around
SortedByLikesBackwards(td) ==
    Items(SortDesc([k \in 1..Len(td) |-> <<td[Len(td) + 1 - k].total_likes, td[Len(td) + 1 - k]>>]))

\* sorted(timeline_data.items(), key=total_likes, reverse=True)
SortedByLikes(td) ==
    Items(SortDesc([k \in 1..Len(td) |-> <<td[k].total_likes, td[k]>>]))

\* sorted(...)[:10]
TopMoments(td) == SubSeq(SortedByLikes(td), 1, Min(TopN, Len(td)))

\* the sort left out: the first entries in insertion order
TitleMomentsUnsorted(td) == SubSeq(td, 1, Min(TitleN, Len(td)))

\* generate_short_form_title: top_moments = sorted(...)[:3]
TitleMoments(td) == SubSeq(SortedByLikes(td), 1, Min(TitleN, Len(td)))

(***************************************************************************)
(* The inputs.  General: up to MaxComments comments in any order, each     *)
(* with any timestamp up to MaxTime or none, and any likeCount up to       *)
(* MaxLikes.  Staircase: up to MaxStair comments, all timestamped, whose   *)
(* timestamps start at 0 and rise by gap1 and gap2 in turn, arriving in    *)
(* ascending or in descending order, with likeCounts like1 and like2 in    *)
(* turn.                                                                   *)
(***************************************************************************)
Rows == [timestamp : {None} \cup 0..MaxTime, likeCount : 0..MaxLikes]

GeneralFrames == UNION {[1..n -> Rows] : n \in 0..MaxComments}

StairTime(k, gap1, gap2) ==
    ((k - 1) \div 2) * (gap1 + gap2) + (IF (k - 1) % 2 = 1 THEN gap1 ELSE 0)

StairFrame(n, gap1, gap2, like1, like2, ascending) ==
    [k \in 1..n |->
        [timestamp |-> StairTime(IF ascending THEN k ELSE n + 1 - k, gap1, gap2),
         likeCount |-> IF k % 2 = 1 THEN like1 ELSE like2]]

StairFrames ==
    {StairFrame(n, g1, g2, l1, l2, asc) :
        n \in 0..MaxStair, g1 \in 1..MaxGap, g2 \in 1..MaxGap,
        l1 \in 0..MaxLikes, l2 \in 0..MaxLikes, asc \in BOOLEAN}

\* no second pass of aggregate_timeline_comments
NoPass == [module |-> "das", df |-> <<>>, pc |-> "idle", timestamp_comments |-> <<>>,
           pos |-> 0, current_group |-> None, timeline_data |-> <<>>]

\* st.session_state of a new session: no key is set
NewSession == <<>>

\* no earlier call of aggregate_timeline_comments on this data frame
NoCall == [done |-> FALSE, order |-> <<>>, result |-> <<>>]

Init ==
    /\ module \in Modules
    /\ df \in GeneralFrames \cup StairFrames
    /\ pc = "process_video"
    /\ timestamp_comments = <<>>
    /\ pos = 0
    /\ current_group = None
    /\ timeline_data = <<>>
    /\ start_time = 0
    /\ displayed = <<>>
    /\ comments_list = <<>>
    /\ first_call = NoCall
    /\ top_moments = <<>>
    /\ other = NoPass
    /\ session_state = NewSession
    /\ player = None
    /\ videos = <<>>
    /\ clicked = None

(***************************************************************************)
(* process_video up to the call of aggregate_timeline_comments, which an   *)
(* empty data frame skips.                                                 *)
(***************************************************************************)
ProcessVideo ==
    /\ pc = "process_video"
    /\ pc' = IF Len(df) = 0 THEN "most_liked" ELSE "aggregate"
    /\ UNCHANGED <<rest_of_app, top_moments, comments_list, first_call, module, df, timestamp_comments, pos, current_group,
                   timeline_data, start_time, displayed>>

(***************************************************************************)
(* aggregate_timeline_comments up to its loop: keep the timestamped rows,  *)
(* return {} when there are none, sort them by timestamp.                  *)
(***************************************************************************)
FilterAndSort ==
    /\ pc = "aggregate"
    /\ \E order \in SortValues(df, NotNa(df)) :
          \* the sort is a function of its input: a second call on the same
          \* frame gets the arrangement the first call got
          /\ first_call.done => order = first_call.order
          /\ timestamp_comments' = order
    /\ pc' = IF NotNa(df) = {} THEN "most_liked" ELSE "walk"
    /\ UNCHANGED <<rest_of_app, top_moments, comments_list, first_call, module, df, pos, current_group, timeline_data, start_time, displayed>>

\* the threshold measured from the previous row instead of the group's opening row
WalkStepChained ==
    /\ pc = "walk"
    /\ pos < Len(timestamp_comments)
    /\ LET row == timestamp_comments[pos + 1]
           previous == IF pos = 0 THEN None ELSE df[timestamp_comments[pos]].timestamp
           group == IF OpensGroup(df[row].timestamp, previous)
                    THEN df[row].timestamp ELSE current_group
       IN  /\ current_group' = group
           /\ timeline_data' = AddRow(module, df, timeline_data, group, row)
    /\ pos' = pos + 1
    /\ UNCHANGED <<rest_of_app, top_moments, comments_list, first_call, module, df, pc, timestamp_comments, start_time, displayed>>

\* one iteration of the loop over the sorted rows
WalkStep ==
    /\ pc = "walk"
    /\ pos < Len(timestamp_comments)
    /\ LET row == timestamp_comments[pos + 1]
           group == NextGroup(df[row].timestamp, current_group)
       IN  /\ current_group' = group
           /\ timeline_data' = AddRow(module, df, timeline_data, group, row)
    /\ pos' = pos + 1
    /\ UNCHANGED <<rest_of_app, top_moments, comments_list, first_call, module, df, pc, timestamp_comments, start_time, displayed>>

\* the loop is over: return timeline_data
Return ==
    /\ pc = "walk"
    /\ pos = Len(timestamp_comments)
    /\ pc' = "most_liked"
    /\ UNCHANGED <<rest_of_app, top_moments, comments_list, first_call, module, df, timestamp_comments, pos, current_group,
                   timeline_data, start_time, displayed>>

\* start_time initialised to None instead of 0
MostLikedUnset ==
    /\ pc = "most_liked"
    /\ start_time' = IF timeline_data # <<>> THEN MaxByLikes(timeline_data).key ELSE None
    /\ pc' = "display"
    /\ UNCHANGED <<rest_of_app, top_moments, comments_list, first_call, module, df, timestamp_comments, pos, current_group,
                   timeline_data, displayed>>

\* process_video: start_time is the key of the most liked moment, 0 without moments
MostLiked ==
    /\ pc = "most_liked"
    /\ start_time' = IF timeline_data # <<>> THEN MaxByLikes(timeline_data).key ELSE 0
    /\ pc' = "display"
    /\ UNCHANGED <<rest_of_app, top_moments, comments_list, first_call, module, df, timestamp_comments, pos, current_group,
                   timeline_data, displayed>>

\* the moments shown: display_timeline_moments (das.py), which first has
\* generate_short_form_title pick the moments to title, and the inline loop
\* (das-mainpage.py), which suggests no titles
Display ==
    /\ pc = "display"
    /\ top_moments' = IF module = "das" /\ timeline_data # <<>>
                      THEN TitleMoments(timeline_data) ELSE <<>>
    /\ displayed' = IF timeline_data # <<>> THEN TopMoments(timeline_data) ELSE <<>>
    /\ pc' = "rendered"
    /\ UNCHANGED <<rest_of_app, comments_list, first_call, module, df, timestamp_comments, pos, current_group,
                   timeline_data, start_time>>

Next == ProcessVideo \/ FilterAndSort \/ WalkStep \/ Return \/ MostLiked \/ Display

Spec == Init /\ [][Next]_vars

(***************************************************************************)
(* aggregate_timeline_comments as a function: called on a data frame that  *)
(* carries the timestamp column (an empty frame included), and called      *)
(* again on the same frame once it has returned.  Every call starts from   *)
(* fresh locals: the filtered frame, timeline_data and current_group are   *)
(* created inside the function.                                            *)
(***************************************************************************)
InitAggregate ==
    /\ module \in Modules
    /\ df \in GeneralFrames \cup StairFrames
    /\ pc = "aggregate"
    /\ timestamp_comments = <<>>
    /\ pos = 0
    /\ current_group = None
    /\ timeline_data = <<>>
    /\ start_time = 0
    /\ displayed = <<>>
    /\ comments_list = <<>>
    /\ first_call = NoCall
    /\ top_moments = <<>>
    /\ other = NoPass
    /\ session_state = NewSession
    /\ player = None
    /\ videos = <<>>
    /\ clicked = None

\* timeline_data kept across the calls, as a dictionary of the module would be
CallAgainShared ==
    /\ pc = "most_liked"
    /\ ~first_call.done
    /\ first_call' = [done |-> TRUE, order |-> timestamp_comments, result |-> timeline_data]
    /\ timestamp_comments' = <<>>
    /\ pos' = 0
    /\ current_group' = None
    /\ pc' = "aggregate"
    /\ UNCHANGED <<rest_of_app, top_moments, comments_list, module, df, timeline_data, start_time, displayed>>

\* the second call: the first result is kept aside, the locals are new
CallAgain ==
    /\ pc = "most_liked"
    /\ ~first_call.done
    /\ first_call' = [done |-> TRUE, order |-> timestamp_comments, result |-> timeline_data]
    /\ timestamp_comments' = <<>>
    /\ pos' = 0
    /\ current_group' = None
    /\ timeline_data' = <<>>
    /\ pc' = "aggregate"
    /\ UNCHANGED <<rest_of_app, top_moments, comments_list, module, df, start_time, displayed>>

NextAggregate == FilterAndSort \/ WalkStep \/ Return \/ CallAgain

SpecAggregate == InitAggregate /\ [][NextAggregate]_vars

(***************************************************************************)
(* parse_timestamp.  A text is a sequence of one-character strings; a      *)
(* textDisplay that is not a string (a JSON null) is the marker            *)
(* NotAString, on which re.search raises TypeError.                        *)
(***************************************************************************)
MaxText == 7

Raised == -2

NotAString == <<"NaN">>

DigitChars == <<"0", "1", "2", "3", "4", "5", "6", "7", "8", "9">>

IsDigit(c) == \E d \in 1..Len(DigitChars) : DigitChars[d] = c

DigitValue(c) == (CHOOSE d \in 1..Len(DigitChars) : DigitChars[d] = c) - 1

\* \d{n} at position s
DigitsAt(text, s, n) ==
    /\ s + n - 1 <= Len(text)
    /\ \A i \in s..(s + n - 1) : IsDigit(text[i])

ColonAt(text, s) == s <= Len(text) /\ text[s] = ":"

\* \d{1,2}:\d{2} at position s, the greedy two-digit reading tried first;
\* the position of the last matched character, 0 without a match
TailEnd(text, s) ==
    IF DigitsAt(text, s, 2) /\ ColonAt(text, s + 2) /\ DigitsAt(text, s + 3, 2)
    THEN s + 4
    ELSE IF DigitsAt(text, s, 1) /\ ColonAt(text, s + 1) /\ DigitsAt(text, s + 2, 2)
         THEN s + 3
         ELSE 0

\* (\d{1,2}:)?\d{1,2}:\d{2} at position s: the optional group is tried
\* with two digits, then with one digit, then left out
MatchEnd(text, s) ==
    IF DigitsAt(text, s, 2) /\ ColonAt(text, s + 2) /\ TailEnd(text, s + 3) # 0
    THEN TailEnd(text, s + 3)
    ELSE IF DigitsAt(text, s, 1) /\ ColonAt(text, s + 1) /\ TailEnd(text, s + 2) # 0
         THEN TailEnd(text, s + 2)
         ELSE TailEnd(text, s)

NoMatch == [start |-> 0, end |-> 0]

Starts(text) == {s \in 1..Len(text) : MatchEnd(text, s) # 0}

\* the match furthest to the right, as a scan from the end would return
SearchLast(text) ==
    IF Starts(text) = {} THEN NoMatch
    ELSE LET s == CHOOSE a \in Starts(text) : \A b \in Starts(text) : b <= a
         IN  [start |-> s, end |-> MatchEnd(text, s)]

\* re.search: the match at the leftmost position where the pattern matches
Search(text) ==
    IF Starts(text) = {} THEN NoMatch
    ELSE LET s == CHOOSE a \in Starts(text) : \A b \in Starts(text) : a <= b
         IN  [start |-> s, end |-> MatchEnd(text, s)]

\* timestamp.split(':')
RECURSIVE Split(_)
Split(s) ==
    IF \A i \in 1..Len(s) : s[i] # ":" THEN <<s>>
    ELSE LET i == CHOOSE a \in 1..Len(s) :
                      s[a] = ":" /\ \A b \in 1..(a - 1) : s[b] # ":"
         IN  <<SubSeq(s, 1, i - 1)>> \o Split(SubSeq(s, i + 1, Len(s)))

\* the strings int() accepts among those the pattern can match
IsNumeral(part) == part # <<>> /\ \A i \in 1..Len(part) : IsDigit(part[i])

RECURSIVE ToInt(_)
ToInt(part) ==
    IF part = <<>> THEN 0
    ELSE 10 * ToInt(SubSeq(part, 1, Len(part) - 1)) + DigitValue(part[Len(part)])

\* the seconds subtracted from the minutes
TwoFieldsDifference(time_parts) ==
    IF \E i \in 1..2 : ~IsNumeral(time_parts[i]) THEN Raised
    ELSE ToInt(time_parts[1]) * 60 - ToInt(time_parts[2])

\* minutes, seconds = map(int, time_parts)
TwoFields(time_parts) ==
    IF \E i \in 1..2 : ~IsNumeral(time_parts[i]) THEN Raised
    ELSE ToInt(time_parts[1]) * 60 + ToInt(time_parts[2])

\* the hours weighted as minutes
ThreeFieldsHoursAsMinutes(time_parts) ==
    IF Len(time_parts) # 3 \/ \E i \in 1..Len(time_parts) : ~IsNumeral(time_parts[i])
    THEN Raised
    ELSE ToInt(time_parts[1]) * 60 + ToInt(time_parts[2]) * 60 + ToInt(time_parts[3])

\* hours, minutes, seconds = map(int, time_parts): the unpacking raises
\* unless there are exactly three parts
ThreeFields(time_parts) ==
    IF Len(time_parts) # 3 \/ \E i \in 1..Len(time_parts) : ~IsNumeral(time_parts[i])
    THEN Raised
    ELSE ToInt(time_parts[1]) * 3600 + ToInt(time_parts[2]) * 60 + ToInt(time_parts[3])

TotalSeconds(time_parts) ==
    IF Len(time_parts) = 2 THEN TwoFields(time_parts) ELSE ThreeFields(time_parts)

\* total_seconds initialised to 0 and returned when nothing matched
ParseBodyZero(text) ==
    IF text = NotAString THEN Raised
    ELSE LET match == Search(text)
         IN  IF match = NoMatch THEN 0
             ELSE TotalSeconds(Split(SubSeq(text, match.start, match.end)))

\* the body of the try block: Raised when an exception leaves it
ParseBody(text) ==
    IF text = NotAString THEN Raised
    ELSE LET match == Search(text)
         IN  IF match = NoMatch THEN None
             ELSE TotalSeconds(Split(SubSeq(text, match.start, match.end)))

\* the body without the try block around it
ParseTimestampUncaught(text) == ParseBody(text)

\* except Exception: the error is logged and None returned
ParseTimestamp(text) ==
    LET total_seconds == ParseBody(text)
    IN  IF total_seconds = Raised THEN None ELSE total_seconds

(***************************************************************************)
(* The comment texts.  GeneralTexts are all the texts of at most MaxText   *)
(* characters over a letter, the colon and two digits; the named texts     *)
(* are comments as viewers write them.                                     *)
(***************************************************************************)
Alphabet == {"a", ":", "0", "1"}

GeneralTexts == UNION {[1..n -> Alphabet] : n \in 0..MaxText}

\* "2:15"
TwoFieldText == <<"2", ":", "1", "5">>

\* "1:05:30"
ThreeFieldText == <<"1", ":", "0", "5", ":", "3", "0">>

\* "2:15 1:05:30"
LaterStampText == <<"2", ":", "1", "5", " ", "1", ":", "0", "5", ":", "3", "0">>

\* "at 2:17"
NearbyText == <<"a", "t", " ", "2", ":", "1", "7">>

\* "lol"
NoStampText == <<"l", "o", "l">>

\* "1:5"
ShortSecondsText == <<"1", ":", "5">>

NamedTexts == {TwoFieldText, ThreeFieldText, LaterStampText, NearbyText,
               NoStampText, ShortSecondsText, NotAString}

\* get_comments: one row per comment of the response, in its order
SingleBatches == {<<[text |-> t, likeCount |-> 0]>> : t \in GeneralTexts}

NamedBatches ==
    UNION {[1..n -> [text : NamedTexts, likeCount : {0}]] : n \in 0..MaxComments}

(***************************************************************************)
(* process_video from the comments that get_comments returned: the         *)
(* timestamp column is computed by parse_timestamp row by row and the      *)
(* frame handed to aggregate_timeline_comments.                            *)
(***************************************************************************)
InitParse ==
    /\ module = "das"
    /\ comments_list \in SingleBatches \cup NamedBatches
    /\ df = <<>>
    /\ pc = "apply"
    /\ timestamp_comments = <<>>
    /\ pos = 0
    /\ current_group = None
    /\ timeline_data = <<>>
    /\ start_time = 0
    /\ displayed = <<>>
    /\ first_call = NoCall
    /\ top_moments = <<>>
    /\ other = NoPass
    /\ session_state = NewSession
    /\ player = None
    /\ videos = <<>>
    /\ clicked = None

\* comments_df['timestamp'] = comments_df['text'].apply(parse_timestamp):
\* an exception leaving parse_timestamp leaves apply and reaches the
\* except clause of process_video
ApplyParse ==
    /\ pc = "apply"
    /\ LET column == [k \in 1..Len(comments_list) |->
                         ParseTimestamp(comments_list[k].text)]
       IN  IF \E k \in 1..Len(comments_list) : column[k] = Raised
           THEN /\ pc' = "error"
                /\ df' = df
           ELSE /\ pc' = IF comments_list = <<>> THEN "most_liked" ELSE "aggregate"
                /\ df' = [k \in 1..Len(comments_list) |->
                             [timestamp |-> column[k],
                              likeCount |-> comments_list[k].likeCount]]
    /\ UNCHANGED <<rest_of_app, top_moments, comments_list, first_call, module, timestamp_comments, pos,
                   current_group, timeline_data, start_time, displayed>>

NextParse == ApplyParse \/ FilterAndSort \/ WalkStep \/ Return

SpecParse == InitParse /\ [][NextParse]_vars

(***************************************************************************)
(* aggregate_timeline_comments as a function of the sorted rows: the loop  *)
(* run from its first row to its last.                                     *)
(***************************************************************************)
RECURSIVE WalkFrom(_, _, _, _, _, _)
WalkFrom(mod, frame, order, k, group, td) ==
    IF k > Len(order) THEN td
    ELSE LET next_group == NextGroup(frame[order[k]].timestamp, group)
         IN  WalkFrom(mod, frame, order, k + 1, next_group,
                      AddRow(mod, frame, td, next_group, order[k]))

Aggregate(mod, frame, order) == WalkFrom(mod, frame, order, 1, None, <<>>)

(***************************************************************************)
(* Two calls of aggregate_timeline_comments at the same time, as two       *)
(* sessions of the app make them: each call has its own data frame and     *)
(* its own locals.  The first call runs in the variables of the module,    *)
(* the second in the record other; their steps interleave freely.  The     *)
(* second call works on the frame of the first or on a frame of its own,   *)
(* and each call runs the function of either file.                         *)
(***************************************************************************)
PassRows == [timestamp : {0, Tolerance, Tolerance + 1}, likeCount : {0, MaxLikes}]

PassFrames == UNION {[1..n -> PassRows] : n \in 0..MaxComments}

SecondFrames ==
    {<<>>,
     <<[timestamp |-> Tolerance, likeCount |-> 0]>>,
     <<[timestamp |-> Tolerance + 1, likeCount |-> MaxLikes],
       [timestamp |-> 0, likeCount |-> 0]>>}

InitPasses ==
    /\ module \in Modules
    /\ df \in PassFrames
    /\ pc = "aggregate"
    /\ timestamp_comments = <<>>
    /\ pos = 0
    /\ current_group = None
    /\ timeline_data = <<>>
    /\ start_time = 0
    /\ displayed = <<>>
    /\ comments_list = <<>>
    /\ first_call = NoCall
    /\ top_moments = <<>>
    /\ \E mod \in Modules, frame \in {df} \cup SecondFrames :
          other = [NoPass EXCEPT !.module = mod, !.df = frame, !.pc = "aggregate"]
    /\ session_state = NewSession
    /\ player = None
    /\ videos = <<>>
    /\ clicked = None

\* the second call up to its loop
OtherFilterAndSort ==
    /\ other.pc = "aggregate"
    /\ \E order \in SortValues(other.df, NotNa(other.df)) :
          other' = [other EXCEPT
                       !.timestamp_comments = order,
                       !.pc = IF NotNa(other.df) = {} THEN "returned" ELSE "walk"]
    /\ UNCHANGED <<session_state, player, videos, clicked, top_moments, comments_list,
                   first_call, module, df,
                   pc, timestamp_comments, pos, current_group, timeline_data,
                   start_time, displayed>>

\* current_group kept in a variable of the module, which both calls use
OtherWalkStepSharedGroup ==
    /\ other.pc = "walk"
    /\ other.pos < Len(other.timestamp_comments)
    /\ LET row == other.timestamp_comments[other.pos + 1]
           group == NextGroup(other.df[row].timestamp, current_group)
       IN  /\ current_group' = group
           /\ other' = [other EXCEPT
                           !.current_group = group,
                           !.timeline_data =
                               AddRow(other.module, other.df, other.timeline_data, group, row),
                           !.pos = other.pos + 1]
    /\ UNCHANGED <<session_state, player, videos, clicked, top_moments, comments_list,
                   first_call, module, df,
                   pc, timestamp_comments, pos, timeline_data, start_time, displayed>>

\* one iteration of the second call's loop
OtherWalkStep ==
    /\ other.pc = "walk"
    /\ other.pos < Len(other.timestamp_comments)
    /\ LET row == other.timestamp_comments[other.pos + 1]
           group == NextGroup(other.df[row].timestamp, other.current_group)
       IN  other' = [other EXCEPT
                        !.current_group = group,
                        !.timeline_data =
                            AddRow(other.module, other.df, other.timeline_data, group, row),
                        !.pos = other.pos + 1]
    /\ UNCHANGED <<session_state, player, videos, clicked, top_moments, comments_list,
                   first_call, module, df,
                   pc, timestamp_comments, pos, current_group, timeline_data,
                   start_time, displayed>>

\* the second call returns its timeline_data
OtherReturn ==
    /\ other.pc = "walk"
    /\ other.pos = Len(other.timestamp_comments)
    /\ other' = [other EXCEPT !.pc = "returned"]
    /\ UNCHANGED <<session_state, player, videos, clicked, top_moments, comments_list,
                   first_call, module, df,
                   pc, timestamp_comments, pos, current_group, timeline_data,
                   start_time, displayed>>

NextPasses ==
    \/ FilterAndSort \/ WalkStep \/ Return
    \/ OtherFilterAndSort \/ OtherWalkStep \/ OtherReturn

SpecPasses == InitPasses /\ [][NextPasses]_vars

(***************************************************************************)
(* The pages.  st.session_state is a mapping whose keys come into being    *)
(* when they are first set: page, video_url, enter_pressed, current_time   *)
(* and url_input, the value of the text input of the home page.  Streamlit *)
(* runs main() once when the session starts and once for every event of    *)
(* the user; st.rerun() ends the run and asks for another one.  pc is      *)
(* "rerun" while a run is asked for, and else names the page on screen.    *)
(*                                                                         *)
(* videos maps the URLs that name a video to the comments get_comments     *)
(* returns for it, already carrying their timestamps; "x" is a text that   *)
(* names no video.  clicked is the representative_time of the timestamp    *)
(* button clicked last since the video was opened from the home page,      *)
(* None when there was no such click.                                      *)
(***************************************************************************)
VideoUrls == {"A", "B"}

TypedUrls == VideoUrls \cup {"", "x"}

\* st.session_state.get(key, default)
Get(ss, key, default) == IF key \in DOMAIN ss THEN ss[key] ELSE default

\* st.session_state[key] = value
Put(ss, key, value) ==
    [k \in DOMAIN ss \cup {key} |-> IF k = key THEN value ELSE ss[k]]

\* the state of a widget that a run did not render is discarded
Drop(ss, key) == [k \in DOMAIN ss \ {key} |-> ss[k]]

\* the test of the URL left out
HomeRunAnyUrl(ss, button) ==
    LET url == Get(ss, "url_input", "")
        shown == Put(ss, "url_input", url)
    IN  IF button \/ Get(ss, "enter_pressed", FALSE)
        THEN [session |-> Put(Put(Put(shown, "video_url", url), "page", "video"),
                              "enter_pressed", FALSE),
              rerun |-> TRUE]
        ELSE [session |-> shown, rerun |-> FALSE]

\* show_home_page: the text input, then the button or the Enter flag
HomeRun(ss, button) ==
    LET url == Get(ss, "url_input", "")
        shown == Put(ss, "url_input", url)
    IN  IF button \/ Get(ss, "enter_pressed", FALSE)
        THEN IF url # ""
             THEN [session |-> Put(Put(Put(shown, "video_url", url), "page", "video"),
                                   "enter_pressed", FALSE),
                   rerun |-> TRUE]
             ELSE [session |-> shown, rerun |-> FALSE]
        ELSE [session |-> shown, rerun |-> FALSE]

\* display_video_player(..., current_time or start_time)
StartOffset(current_time, start) == IF current_time # 0 THEN current_time ELSE start

\* main: the page key is set on the first run
WithPage(ss) == IF "page" \in DOMAIN ss THEN ss ELSE Put(ss, "page", "home")

\* nothing of process_video is on the page
NoVideoShown ==
    /\ df' = <<>>
    /\ timestamp_comments' = <<>>
    /\ pos' = 0
    /\ current_group' = None
    /\ timeline_data' = <<>>
    /\ start_time' = 0
    /\ displayed' = <<>>
    /\ top_moments' = <<>>
    /\ player' = None

\* process_video(url) in a run in which the timestamp button of the moment
\* keyed moment was clicked (None: no such click)
ProcessVideoRun(ss, url, moment) ==
    IF url \notin DOMAIN videos
    THEN \* get_video_info finds nothing: an error message and return
         /\ NoVideoShown
         /\ session_state' = ss
         /\ pc' = "video"
         /\ clicked' = clicked
    ELSE \E order \in SortValues(videos[url], NotNa(videos[url])) :
            LET td == Aggregate("das", videos[url], order)
                start == IF td # <<>> THEN MaxByLikes(td).key ELSE 0
                shown == IF td # <<>> THEN TopMoments(td) ELSE <<>>
                hit == \E k \in 1..Len(shown) : shown[k].key = moment
            IN  /\ df' = videos[url]
                /\ timestamp_comments' = order
                /\ pos' = Len(order)
                /\ current_group' = IF td = <<>> THEN None ELSE td[Len(td)].key
                /\ timeline_data' = td
                /\ start_time' = start
                /\ player' = StartOffset(Get(ss, "current_time", 0), start)
                /\ top_moments' = IF td # <<>> THEN TitleMoments(td) ELSE <<>>
                /\ displayed' = shown
                \* display_moment: the clicked button stores its time and reruns
                /\ session_state' = IF hit THEN Put(ss, "current_time", moment) ELSE ss
                /\ pc' = IF hit THEN "rerun" ELSE "video"
                /\ clicked' = IF hit THEN moment ELSE clicked

\* one run of main() on session state ss, with the button of the home page,
\* the back button or the timestamp button of a moment clicked, or none
ScriptRun(ss, button, back, moment) ==
    IF WithPage(ss).page = "home"
    THEN LET run == HomeRun(WithPage(ss), button)
         IN  /\ session_state' = run.session
             /\ pc' = IF run.rerun THEN "rerun" ELSE "home"
             /\ clicked' = IF run.rerun THEN None ELSE clicked
             /\ NoVideoShown
    ELSE IF back
         THEN /\ session_state' = Put(Drop(ss, "url_input"), "page", "home")
              /\ pc' = "rerun"
              /\ UNCHANGED <<clicked, df, timestamp_comments, pos, current_group,
                             timeline_data, start_time, displayed, top_moments, player>>
         ELSE IF "video_url" \in DOMAIN ss
              THEN ProcessVideoRun(Drop(ss, "url_input"), ss["video_url"], moment)
              ELSE /\ NoVideoShown
                   /\ session_state' = Drop(ss, "url_input")
                   /\ pc' = "video"
                   /\ clicked' = clicked

InitSession ==
    /\ module = "das"
    /\ df = <<>>
    /\ pc = "rerun"
    /\ timestamp_comments = <<>>
    /\ pos = 0
    /\ current_group = None
    /\ timeline_data = <<>>
    /\ start_time = 0
    /\ displayed = <<>>
    /\ comments_list = <<>>
    /\ first_call = NoCall
    /\ top_moments = <<>>
    /\ other = NoPass
    /\ session_state = NewSession
    /\ player = None
    /\ \E a \in PassFrames, b \in SecondFrames : videos = [A |-> a, B |-> b]
    /\ clicked = None

\* the first run of a session, and the run that st.rerun() asks for
Rerun ==
    /\ pc = "rerun"
    /\ ScriptRun(session_state, FALSE, FALSE, None)
    /\ UNCHANGED <<other, videos, comments_list, first_call, module>>

\* the text of the input changed: handle_enter, then a run
CommitText ==
    /\ pc = "home"
    /\ \E text \in TypedUrls \ {Get(session_state, "url_input", "")} :
          ScriptRun(Put(Put(session_state, "url_input", text), "enter_pressed", TRUE),
                    FALSE, FALSE, None)
    /\ UNCHANGED <<other, videos, comments_list, first_call, module>>

\* the button of the home page
ClickSubmit ==
    /\ pc = "home"
    /\ ScriptRun(session_state, TRUE, FALSE, None)
    /\ UNCHANGED <<other, videos, comments_list, first_call, module>>

\* the back button of the video page
ClickBack ==
    /\ pc = "video"
    /\ ScriptRun(session_state, FALSE, TRUE, None)
    /\ UNCHANGED <<other, videos, comments_list, first_call, module>>

\* the timestamp button of a displayed moment
ClickMoment ==
    /\ pc = "video"
    /\ \E k \in 1..Len(displayed) :
          ScriptRun(session_state, FALSE, FALSE, displayed[k].key)
    /\ UNCHANGED <<other, videos, comments_list, first_call, module>>

NextSession == Rerun \/ CommitText \/ ClickSubmit \/ ClickBack \/ ClickMoment

SpecSession == InitSession /\ [][NextSession]_vars

(***************************************************************************)
(* Vocabulary of the properties.                                           *)
(***************************************************************************)
\* aggregate_timeline_comments has returned timeline_data to process_video
Returned == pc \in {"most_liked", "display", "rendered"}

Range(s) == {s[k] : k \in 1..Len(s)}

Time(row) == df[row].timestamp

Likes(row) == df[row].likeCount

\* the comments that carry a timestamp
Timestamped == {r \in 1..Len(df) : Time(r) # None}

\* the timestamps of the rows, in the order in which the loop visits them
SortedTimes == [k \in 1..Len(timestamp_comments) |-> Time(timestamp_comments[k])]

Keys == [m \in 1..Len(timeline_data) |-> timeline_data[m].key]

MemberTimes(m) == {Time(r) : r \in Range(timeline_data[m].comments)}

\* where row r occurs: the moment and the place in its comments
Places(r) ==
    UNION {{<<m, j>> : j \in {i \in 1..Len(timeline_data[m].comments) :
                                timeline_data[m].comments[i] = r}} :
           m \in 1..Len(timeline_data)}

MomentOf(r) == CHOOSE m \in 1..Len(timeline_data) : r \in Range(timeline_data[m].comments)

RECURSIVE SumLikes(_)
SumLikes(rows) == IF rows = <<>> THEN 0 ELSE Likes(Head(rows)) + SumLikes(Tail(rows))

RECURSIVE SumOver(_, _)
SumOver(S, f) ==
    IF S = {} THEN 0
    ELSE LET x == CHOOSE y \in S : TRUE IN f[x] + SumOver(S \ {x}, f)

MemberCount == SumOver(1..Len(timeline_data),
                       [m \in 1..Len(timeline_data) |-> Len(timeline_data[m].comments)])

(***************************************************************************)
(* C1.  Once aggregate_timeline_comments has returned, every comment with  *)
(* a timestamp is a member of exactly one moment, once; and the moments'   *)
(* member counts add up to the number of comments with a timestamp.        *)
(***************************************************************************)
C1_ExactlyOneMoment ==
    (Returned /\ Len(df) > 0) =>
        /\ \A r \in Timestamped : Cardinality(Places(r)) = 1
        /\ MemberCount = Cardinality(Timestamped)

\* several moments, one of them with several members
C1_Witness ==
    /\ Returned
    /\ Len(timeline_data) >= 2
    /\ \E m \in 1..Len(timeline_data) : Len(timeline_data[m].comments) >= 2

(***************************************************************************)
(* C2 as stated: the comments with timestamps 0, 4, 8, 12 all land in one  *)
(* moment keyed 0.                                                         *)
(***************************************************************************)
C2_SingleMoment ==
    (Returned /\ SortedTimes = <<0, 4, 8, 12>>) =>
        /\ Len(timeline_data) = 1
        /\ timeline_data[1].key = 0
        /\ Len(timeline_data[1].comments) = 4

\* the timestamps of the visited rows rise in steps of at most Tolerance
SmallSteps ==
    \A k \in 1..(Len(SortedTimes) - 1) : SortedTimes[k + 1] - SortedTimes[k] <= Tolerance

(***************************************************************************)
(* C2, amended.  The comments with timestamps 0, 4, 8, 12 make two         *)
(* moments, keyed 0 (timestamps 0 and 4) and keyed 8 (timestamps 8 and     *)
(* 12); and when timestamps rise in steps of at most 5, no moment holds a  *)
(* member more than 5 seconds past its key.                                *)
(***************************************************************************)
C2_TwoMoments ==
    /\ (Returned /\ SortedTimes = <<0, 4, 8, 12>>) =>
          /\ Keys = <<0, 8>>
          /\ MemberTimes(1) = {0, 4}
          /\ MemberTimes(2) = {8, 12}
    /\ (Returned /\ SmallSteps) =>
          \A m \in 1..Len(timeline_data) : \A t \in MemberTimes(m) :
              t - timeline_data[m].key <= Tolerance

C2_Witness == Returned /\ SortedTimes = <<0, 4, 8, 12>> /\ Len(timeline_data) = 2

(***************************************************************************)
(* C3.  In every moment, during the loop and after it, every member's      *)
(* timestamp is within 5 seconds of the moment's key and                   *)
(* representative_time (the timestamp that opened it).                     *)
(***************************************************************************)
C3_WithinTolerance ==
    \A m \in 1..Len(timeline_data) : \A t \in MemberTimes(m) :
        /\ Abs(t - timeline_data[m].key) <= Tolerance
        /\ Abs(t - timeline_data[m].representative_time) <= Tolerance

\* two rows visited one after the other, at most 5 seconds apart, in different moments
C3_Witness ==
    /\ Returned
    /\ \E k \in 1..(Len(timestamp_comments) - 1) :
          /\ SortedTimes[k + 1] - SortedTimes[k] <= Tolerance
          /\ MomentOf(timestamp_comments[k]) # MomentOf(timestamp_comments[k + 1])

(***************************************************************************)
(* C4.  For every row the loop has visited: the first row opens a moment   *)
(* keyed by its timestamp; a later row whose timestamp is at most 5 from   *)
(* the key of the previous row's moment (the anchor) joins that moment,    *)
(* and one more than 5 away opens the next moment, keyed by its own        *)
(* timestamp; the anchor is the key of the last visited row's moment.      *)
(* Timestamps 0, 4, 11 give two moments: key 0 with 0 and 4, key 11 with   *)
(* 11.                                                                     *)
(***************************************************************************)
C4_JoinOrOpen ==
    /\ \A k \in 1..pos :
          LET t == SortedTimes[k]
              m == MomentOf(timestamp_comments[k])
          IN  IF k = 1 THEN m = 1 /\ timeline_data[m].key = t
              ELSE LET p == MomentOf(timestamp_comments[k - 1])
                   IN  IF Abs(t - timeline_data[p].key) <= Tolerance
                       THEN m = p
                       ELSE m = p + 1 /\ timeline_data[m].key = t
    /\ pos >= 1 => current_group = timeline_data[MomentOf(timestamp_comments[pos])].key
    /\ (Returned /\ SortedTimes = <<0, 4, 11>>) =>
          /\ Keys = <<0, 11>>
          /\ MemberTimes(1) = {0, 4} /\ Len(timeline_data[1].comments) = 2
          /\ MemberTimes(2) = {11} /\ Len(timeline_data[2].comments) = 1

\* a member exactly 5 seconds past its moment's key, and a later moment
C4_Witness ==
    /\ Returned
    /\ \E m \in 1..(Len(timeline_data) - 1) :
          timeline_data[m].key + Tolerance \in MemberTimes(m)

(***************************************************************************)
(* C5.  No comment without a timestamp is a member of a moment, and the    *)
(* moments' total_likes add up to the likeCounts of the timestamped        *)
(* comments alone.                                                         *)
(***************************************************************************)
C5_NullExcluded ==
    /\ \A m \in 1..Len(timeline_data) : None \notin MemberTimes(m)
    /\ (Returned /\ Len(df) > 0) =>
          SumOver(1..Len(timeline_data),
                  [m \in 1..Len(timeline_data) |-> timeline_data[m].total_likes])
            = SumOver(Timestamped, [r \in Timestamped |-> Likes(r)])

\* a liked comment without a timestamp beside a timestamped one
C5_Witness ==
    /\ Returned
    /\ timeline_data # <<>>
    /\ \E r \in 1..Len(df) : Time(r) = None /\ Likes(r) > 0

(***************************************************************************)
(* C6.  After every step of the loop and after the return, each moment's   *)
(* total_likes is the sum of its members' likeCounts; every visited row,   *)
(* also one with likeCount 0, is a member.                                 *)
(***************************************************************************)
C6_TotalLikes ==
    /\ \A m \in 1..Len(timeline_data) :
          timeline_data[m].total_likes = SumLikes(timeline_data[m].comments)
    /\ \A k \in 1..pos :
          \E m \in 1..Len(timeline_data) :
              timestamp_comments[k] \in Range(timeline_data[m].comments)

\* a moment with a member without likes and a liked member
C6_Witness ==
    /\ Returned
    /\ \E m \in 1..Len(timeline_data) :
          \E a, b \in Range(timeline_data[m].comments) : Likes(a) = 0 /\ Likes(b) > 0

(***************************************************************************)
(* C7.  Each moment's key and representative_time are the timestamp of the *)
(* first row, in the order of the loop, that is a member of it, which is   *)
(* the least timestamp among its members.                                  *)
(***************************************************************************)
C7_RepresentativeTime ==
    \A m \in 1..Len(timeline_data) :
        LET first == CHOOSE k \in 1..pos :
                        /\ MomentOf(timestamp_comments[k]) = m
                        /\ \A j \in 1..(k - 1) : MomentOf(timestamp_comments[j]) # m
        IN  /\ timeline_data[m].key = SortedTimes[first]
            /\ timeline_data[m].representative_time = SortedTimes[first]
            /\ \A t \in MemberTimes(m) : timeline_data[m].key <= t

\* a moment, not the first, whose members have different timestamps
C7_Witness ==
    /\ Returned
    /\ \E m \in 2..Len(timeline_data) : Cardinality(MemberTimes(m)) >= 2

(***************************************************************************)
(* C8.  The start_time process_video takes is the key of a moment with the *)
(* greatest total_likes, and of the one with the least key among those.    *)
(***************************************************************************)
C8_BestMoment ==
    (pc \in {"display", "rendered"} /\ timeline_data # <<>>) =>
        \E m \in 1..Len(timeline_data) :
            /\ start_time = timeline_data[m].key
            /\ \A o \in 1..Len(timeline_data) :
                  /\ timeline_data[o].total_likes <= timeline_data[m].total_likes
                  /\ timeline_data[o].total_likes = timeline_data[m].total_likes
                        => timeline_data[m].key <= timeline_data[o].key

\* two moments share the greatest total_likes, and a less liked moment comes before them
C8_Witness ==
    /\ pc = "rendered"
    /\ \E a, b \in 2..Len(timeline_data) :
          /\ a < b
          /\ timeline_data[a].total_likes = timeline_data[b].total_likes
          /\ timeline_data[1].total_likes < timeline_data[a].total_likes
          /\ \A o \in 1..Len(timeline_data) :
                timeline_data[o].total_likes <= timeline_data[a].total_likes

(***************************************************************************)
(* C9.  The moments displayed are min(10, number of moments) different     *)
(* moments of timeline_data, in descending total_likes and, among equal    *)
(* total_likes, ascending key; no moment left out has more total_likes     *)
(* than a displayed one, nor the same with a smaller key.                  *)
(***************************************************************************)
C9_TopMoments ==
    pc = "rendered" =>
        /\ Len(displayed) = Min(TopN, Len(timeline_data))
        /\ \A k \in 1..Len(displayed) : displayed[k] \in Range(timeline_data)
        /\ \A j, k \in 1..Len(displayed) :
              j < k =>
                 \/ displayed[j].total_likes > displayed[k].total_likes
                 \/ /\ displayed[j].total_likes = displayed[k].total_likes
                    /\ displayed[j].key < displayed[k].key
        /\ \A o \in Range(timeline_data) \ Range(displayed) :
              \A k \in 1..Len(displayed) :
                 \/ o.total_likes < displayed[k].total_likes
                 \/ /\ o.total_likes = displayed[k].total_likes
                    /\ displayed[k].key < o.key

\* more than ten moments, with equal and with different total_likes among them
C9_Witness ==
    /\ pc = "rendered"
    /\ Len(timeline_data) > TopN
    /\ Len(displayed) = TopN
    /\ \E a, b, c \in 1..Len(timeline_data) :
          /\ a # b
          /\ timeline_data[a].total_likes = timeline_data[b].total_likes
          /\ timeline_data[c].total_likes > timeline_data[a].total_likes

(***************************************************************************)
(* C10.  In das.py the members of every moment are in non-increasing       *)
(* likeCount order.                                                        *)
(***************************************************************************)
C10_MembersByLikes ==
    module = "das" =>
        \A m \in 1..Len(timeline_data) :
            \A j \in 1..(Len(timeline_data[m].comments) - 1) :
                Likes(timeline_data[m].comments[j]) >= Likes(timeline_data[m].comments[j + 1])

\* a moment of das.py in which a later visited row stands before an earlier one
C10_Witness ==
    /\ module = "das"
    /\ Returned
    /\ \E j, k \in 1..Len(timestamp_comments) :
          /\ j < k
          /\ MomentOf(timestamp_comments[j]) = MomentOf(timestamp_comments[k])
          /\ Likes(timestamp_comments[j]) < Likes(timestamp_comments[k])

\* the place of row r in the order of the loop
WalkPlace(r) == CHOOSE k \in 1..Len(timestamp_comments) : timestamp_comments[k] = r

(***************************************************************************)
(* C11 as stated: in a moment of das.py, members with equal likeCount      *)
(* stand in the order of the input sequence.                               *)
(***************************************************************************)
C11_ArrivalOrder ==
    module = "das" =>
        \A m \in 1..Len(timeline_data) :
            \A j, k \in 1..Len(timeline_data[m].comments) :
                (j < k /\ Likes(timeline_data[m].comments[j]) = Likes(timeline_data[m].comments[k]))
                    => timeline_data[m].comments[j] < timeline_data[m].comments[k]

(***************************************************************************)
(* C11, amended.  In a moment of das.py, members with equal likeCount      *)
(* stand in the order in which the loop visited them, which is ascending   *)
(* in the timestamp.                                                       *)
(***************************************************************************)
C11_WalkOrder ==
    module = "das" =>
        \A m \in 1..Len(timeline_data) :
            \A j, k \in 1..Len(timeline_data[m].comments) :
                (j < k /\ Likes(timeline_data[m].comments[j]) = Likes(timeline_data[m].comments[k]))
                    => /\ WalkPlace(timeline_data[m].comments[j])
                            < WalkPlace(timeline_data[m].comments[k])
                       /\ Time(timeline_data[m].comments[j]) <= Time(timeline_data[m].comments[k])

\* equally liked members of a moment, the one that arrived later standing first
C11_Witness ==
    /\ module = "das"
    /\ Returned
    /\ \E m \in 1..Len(timeline_data) :
          \E j, k \in 1..Len(timeline_data[m].comments) :
              /\ j < k
              /\ Likes(timeline_data[m].comments[j]) = Likes(timeline_data[m].comments[k])
              /\ timeline_data[m].comments[j] > timeline_data[m].comments[k]
              /\ Time(timeline_data[m].comments[j]) < Time(timeline_data[m].comments[k])

(***************************************************************************)
(* C12.  The sort by timestamp is stable: rows with equal timestamps are   *)
(* visited by the loop in the order of the input sequence.                 *)
(***************************************************************************)
C12_StableSort ==
    \A j, k \in 1..Len(timestamp_comments) :
        (j < k /\ SortedTimes[j] = SortedTimes[k])
            => timestamp_comments[j] < timestamp_comments[k]

(***************************************************************************)
(* C13.  A second call of aggregate_timeline_comments on the same data     *)
(* frame returns the mapping the first call returned: the same keys in the *)
(* same order, the same members in the same order, the same total_likes.   *)
(***************************************************************************)
C13_SameResult ==
    (first_call.done /\ Returned) => timeline_data = first_call.result

\* the second call has returned several moments, one of them with several members
C13_Witness ==
    /\ first_call.done
    /\ Returned
    /\ Len(timeline_data) >= 2
    /\ \E m \in 1..Len(timeline_data) : Len(timeline_data[m].comments) >= 2

(***************************************************************************)
(* C14.  Called on a frame with no comment, or with no comment that has a  *)
(* timestamp, aggregate_timeline_comments returns the empty mapping: it    *)
(* can take its step, never enters the loop and returns no moment.         *)
(***************************************************************************)
C14_EmptyMapping ==
    Timestamped = {} =>
        /\ pc = "aggregate" => ENABLED FilterAndSort
        /\ pc # "walk"
        /\ Returned => timeline_data = <<>> /\ pos = 0

\* returned from a frame of several comments, none with a timestamp
C14_Witness ==
    /\ Returned
    /\ Len(df) >= 2
    /\ Timestamped = {}

(***************************************************************************)
(* C15 as stated: without moments nothing is displayed, and the best       *)
(* moment query gives a result (start_time 0) that no real moment gives.   *)
(***************************************************************************)
C15_NoMomentDistinct ==
    /\ (pc = "rendered" /\ timeline_data = <<>>) => displayed = <<>>
    /\ pc \in {"display", "rendered"} => (start_time = 0 <=> timeline_data = <<>>)

(***************************************************************************)
(* C15, amended.  Without moments process_video takes its steps (max is    *)
(* not called, nothing is raised), start_time stays 0 and no moment is     *)
(* displayed.                                                              *)
(***************************************************************************)
C15_NoMomentZero ==
    timeline_data = <<>> =>
        /\ pc = "most_liked" => ENABLED MostLiked
        /\ pc = "display" => ENABLED Display
        /\ pc \in {"display", "rendered"} => start_time = 0
        /\ pc = "rendered" => displayed = <<>>

\* the page rendered for comments none of which has a timestamp
C15_Witness ==
    /\ pc = "rendered"
    /\ Len(df) > 0
    /\ timeline_data = <<>>

(***************************************************************************)
(* Vocabulary of the claims about parse_timestamp: a timestamp is read     *)
(* off the text by its shape, digit by digit.                              *)
(***************************************************************************)
Text(k) == comments_list[k].text

Numerals == {"0", "1", "2", "3", "4", "5", "6", "7", "8", "9"}

Shape(g) == [i \in 1..Len(g) |->
                IF g[i] \in Numerals THEN "d" ELSE IF g[i] = ":" THEN ":" ELSE "x"]

StampShapes == {<<"d", ":", "d", "d">>,
                <<"d", "d", ":", "d", "d">>,
                <<"d", ":", "d", ":", "d", "d">>,
                <<"d", ":", "d", "d", ":", "d", "d">>,
                <<"d", "d", ":", "d", ":", "d", "d">>,
                <<"d", "d", ":", "d", "d", ":", "d", "d">>}

IsStamp(t, s, e) == Shape(SubSeq(t, s, e)) \in StampShapes

StampEnds(t, s) == {e \in s..Len(t) : IsStamp(t, s, e)}

StampStarts(t) == {s \in 1..Len(t) : StampEnds(t, s) # {}}

HasStamp(t) == t # NotAString /\ StampStarts(t) # {}

FirstStart(t) ==
    LET starts == StampStarts(t)
    IN  CHOOSE s \in starts : \A o \in starts : s <= o

\* the longest timestamp that begins at the first start
FirstEnd(t) ==
    LET ends == StampEnds(t, FirstStart(t))
    IN  CHOOSE e \in ends : \A o \in ends : o <= e

FirstStamp(t) == SubSeq(t, FirstStart(t), FirstEnd(t))

\* the decimal number written by the one or two digits g[from..to]
NumberAt(g, from, to) ==
    IF from = to THEN DigitValue(g[from])
    ELSE 10 * DigitValue(g[from]) + DigitValue(g[to])

ColonPlaces(g) == {i \in 1..Len(g) : g[i] = ":"}

StampSeconds(g) ==
    LET first == CHOOSE c \in ColonPlaces(g) : \A o \in ColonPlaces(g) : c <= o
        last  == CHOOSE c \in ColonPlaces(g) : \A o \in ColonPlaces(g) : o <= c
    IN  IF first = last
        THEN NumberAt(g, 1, first - 1) * 60 + NumberAt(g, first + 1, Len(g))
        ELSE NumberAt(g, 1, first - 1) * 3600
             + NumberAt(g, first + 1, last - 1) * 60
             + NumberAt(g, last + 1, Len(g))

Applied == pc = "aggregate"

\* C16: for every text in which a timestamp is found, parse_timestamp returns
\* minutes*60 + seconds for a two-field match and hours*3600 + minutes*60 +
\* seconds for a three-field match, the fields read as decimal integers;
\* "1:05:30" gives 3930 and "2:15" gives 135.
C16_SecondsOfMatch ==
    Applied =>
        \A k \in 1..Len(comments_list) :
            /\ HasStamp(Text(k)) =>
                   LET stamp == FirstStamp(Text(k))
                   IN  df[k].timestamp = StampSeconds(stamp)
            /\ Text(k) = ThreeFieldText => df[k].timestamp = 3930
            /\ Text(k) = TwoFieldText => df[k].timestamp = 135

\* a three-field timestamp with a non-zero hour has been converted
C16_Witness ==
    /\ Applied
    /\ Len(comments_list) = 1
    /\ Text(1) = ThreeFieldText
    /\ df[1].timestamp = 3930

\* C17: only the leftmost match is used: two texts that agree up to the end
\* of their first timestamp get the same result, whatever timestamps follow
\* later in either of them.
C17_LeftmostOnly ==
    Applied =>
        \A j, k \in 1..Len(comments_list) :
            (/\ HasStamp(Text(j))
             /\ HasStamp(Text(k))
             /\ FirstEnd(Text(j)) = FirstEnd(Text(k))
             /\ SubSeq(Text(j), 1, FirstEnd(Text(j))) = SubSeq(Text(k), 1, FirstEnd(Text(k))))
            => df[j].timestamp = df[k].timestamp

\* "2:15" and "2:15 1:05:30" in one batch: the later 1:05:30 is ignored
C17_Witness ==
    /\ Applied
    /\ Len(comments_list) = 2
    /\ Text(1) = TwoFieldText
    /\ Text(2) = LaterStampText
    /\ df[1].timestamp = 135
    /\ df[2].timestamp = 135

DigitColonDigit(t) ==
    \E i \in 1..(Len(t) - 2) :
        t[i] \in Numerals /\ t[i + 1] = ":" /\ t[i + 2] \in Numerals

\* C18: a text without a digit, a colon and a digit in a row gets None.
C18_NoPatternNone ==
    Applied =>
        \A k \in 1..Len(comments_list) :
            (Text(k) # NotAString /\ ~DigitColonDigit(Text(k)))
            => df[k].timestamp = None

\* a text with digits and colons, but never digit-colon-digit
C18_Witness ==
    /\ Applied
    /\ Len(comments_list) = 1
    /\ Text(1) = <<"0", ":", "a", ":", "1", "1">>
    /\ df[1].timestamp = None

\* C19: parse_timestamp never raises: process_video is never left through
\* its except clause, every comment gets a result (a number of seconds or
\* None), and the comments that carry a timestamp are clustered although
\* another comment of the batch could not be parsed.
C19_NeverRaises ==
    /\ pc # "error"
    /\ (pc # "apply" /\ comments_list # <<>>) =>
           /\ Len(df) = Len(comments_list)
           /\ \A k \in 1..Len(df) : df[k].timestamp \in Nat \cup {None}
    /\ pc = "most_liked" =>
           \A k \in 1..Len(comments_list) :
               HasStamp(Text(k)) =>
                   \E m \in 1..Len(timeline_data) : k \in Range(timeline_data[m].comments)

\* a batch with a text that is not a string next to a comment with a
\* timestamp, which is clustered
C19_Witness ==
    /\ pc = "most_liked"
    /\ \E j, k \in 1..Len(comments_list) :
           /\ Text(j) = NotAString
           /\ df[j].timestamp = None
           /\ HasStamp(Text(k))
           /\ \E m \in 1..Len(timeline_data) : k \in Range(timeline_data[m].comments)

\* C20: every value of parse_timestamp other than None is a non-negative
\* integer, so every moment key and representative_time is non-negative.
C20_NonNegative ==
    /\ \A k \in 1..Len(df) : df[k].timestamp # None => df[k].timestamp \in Nat
    /\ \A m \in 1..Len(timeline_data) :
           /\ timeline_data[m].key \in Nat
           /\ timeline_data[m].representative_time \in Nat

\* two moments built from parsed texts, keyed 135 and 3930
C20_Witness ==
    /\ pc = "most_liked"
    /\ Len(timeline_data) = 2
    /\ {timeline_data[m].key : m \in 1..2} = {135, 3930}

(***************************************************************************)
(* C22.  In das-mainpage.py the members of every moment are in             *)
(* non-increasing likeCount order.                                         *)
(***************************************************************************)
C22_MainpageSorted ==
    module = "das_mainpage" =>
        \A m \in 1..Len(timeline_data) :
            \A j \in 1..(Len(timeline_data[m].comments) - 1) :
                Likes(timeline_data[m].comments[j]) >= Likes(timeline_data[m].comments[j + 1])

(***************************************************************************)
(* C23.  The keys of the mapping, in the order of their creation, rise by  *)
(* more than Tolerance from each key to every later one, so any two keys   *)
(* differ by more than Tolerance.                                          *)
(***************************************************************************)
C23_KeysApart ==
    \A a, b \in 1..Len(timeline_data) :
        a < b => timeline_data[b].key - timeline_data[a].key > Tolerance

\* three moments out of comments that did not arrive in ascending order
C23_Witness ==
    /\ Returned
    /\ Len(timeline_data) >= 3
    /\ \E r \in 1..(Len(df) - 1) : Time(r) > Time(r + 1)

(***************************************************************************)
(* C24.  Every moment of the mapping has a member, and its                 *)
(* representative_time is the key it is stored under.                      *)
(***************************************************************************)
C24_MemberAndKey ==
    \A m \in 1..Len(timeline_data) :
        /\ Len(timeline_data[m].comments) >= 1
        /\ timeline_data[m].representative_time = timeline_data[m].key

\* a moment whose members are not all at the time of its key
C24_Witness ==
    /\ Returned
    /\ \E m \in 1..Len(timeline_data) :
          /\ Len(timeline_data[m].comments) >= 2
          /\ \E r \in Range(timeline_data[m].comments) : Time(r) # timeline_data[m].key

\* the members of moment m in the order in which the loop appended them
WalkMembers(m) ==
    SelectSeq(timestamp_comments, LAMBDA r : r \in Range(timeline_data[m].comments))

\* one stable descending sort by selection: the first of the most liked
\* rows, then the sorted rest
RECURSIVE SortOnce(_)
SortOnce(rows) ==
    IF rows = <<>> THEN <<>>
    ELSE LET first == CHOOSE i \in 1..Len(rows) :
                          /\ \A j \in 1..Len(rows) : Likes(rows[j]) <= Likes(rows[i])
                          /\ \A j \in 1..(i - 1) : Likes(rows[j]) < Likes(rows[i])
         IN  <<rows[first]>>
             \o SortOnce(SubSeq(rows, 1, first - 1) \o SubSeq(rows, first + 1, Len(rows)))

(***************************************************************************)
(* C25.  In das.py, where the members are sorted after every append, the   *)
(* member list of every moment is the list of its members in walk order    *)
(* sorted once, stably, by descending likeCount.                           *)
(***************************************************************************)
C25_SortedOnce ==
    module = "das" =>
        \A m \in 1..Len(timeline_data) :
            timeline_data[m].comments = SortOnce(WalkMembers(m))

\* a moment of das.py with three or more members, two of them equally
\* liked, which the sort has rearranged
C25_Witness ==
    /\ module = "das"
    /\ Returned
    /\ \E m \in 1..Len(timeline_data) :
          /\ Len(timeline_data[m].comments) >= 3
          /\ timeline_data[m].comments # WalkMembers(m)
          /\ \E j, k \in 1..Len(timeline_data[m].comments) :
                j # k /\ Likes(timeline_data[m].comments[j]) = Likes(timeline_data[m].comments[k])

(***************************************************************************)
(* C30.  The moments generate_short_form_title selects are the first three *)
(* entries of the displayed list, in its order, and all of them when fewer *)
(* than three are displayed.                                               *)
(***************************************************************************)
C30_TitlesAreTopThree ==
    (pc = "rendered" /\ module = "das") =>
        /\ Len(top_moments) = IF Len(displayed) < 3 THEN Len(displayed) ELSE 3
        /\ \A k \in 1..Len(top_moments) : top_moments[k] = displayed[k]

\* more than three moments displayed, the most liked not the earliest
C30_Witness ==
    /\ pc = "rendered"
    /\ module = "das"
    /\ Len(displayed) > 3
    /\ Len(top_moments) = 3
    /\ top_moments[1] # timeline_data[1]

(***************************************************************************)
(* C21.  Two aggregation passes share no state: however their steps        *)
(* interleave, each pass returns the mapping that the function computes    *)
(* from its own frame alone.                                               *)
(***************************************************************************)
C21_PassesIndependent ==
    /\ pc = "most_liked" =>
           timeline_data = Aggregate(module, df, timestamp_comments)
    /\ other.pc = "returned" =>
           other.timeline_data =
               Aggregate(other.module, other.df, other.timestamp_comments)

\* the first pass has returned two moments while the second, on another
\* frame, is in the middle of its loop
C21_Witness ==
    /\ pc = "most_liked"
    /\ Len(timeline_data) = 2
    /\ other.pc = "walk"
    /\ other.df # df
    /\ other.pos = 1
    /\ Len(other.timestamp_comments) = 2

\* what the claim compares of a moment: key, total_likes, representative_time
\* and the members with their multiplicities
MemberBag(comments) ==
    [r \in Range(comments) |-> Cardinality({i \in 1..Len(comments) : comments[i] = r})]

Summary(td) ==
    {[key |-> td[m].key,
      total_likes |-> td[m].total_likes,
      representative_time |-> td[m].representative_time,
      members |-> MemberBag(td[m].comments)] : m \in 1..Len(td)}

(***************************************************************************)
(* C26.  On the same frame the functions of das.py and das-mainpage.py     *)
(* return the same keys and, under each key, the same total_likes, the     *)
(* same representative_time and the same multiset of members.              *)
(***************************************************************************)
C26_SameMoments ==
    (/\ pc = "most_liked"
     /\ other.pc = "returned"
     /\ other.df = df
     /\ other.module # module)
    => Summary(timeline_data) = Summary(other.timeline_data)

\* the two files have returned on one frame, with members in different order
C26_Witness ==
    /\ pc = "most_liked"
    /\ other.pc = "returned"
    /\ other.df = df
    /\ other.module # module
    /\ timeline_data # other.timeline_data
    /\ Len(timeline_data) >= 1

(***************************************************************************)
(* Vocabulary of the claims about the pages.                               *)
(***************************************************************************)
Page == IF "page" \in DOMAIN session_state THEN session_state["page"] ELSE "unset"

VideoUrl == IF "video_url" \in DOMAIN session_state THEN session_state["video_url"] ELSE "unset"

Submit == ClickSubmit \/ CommitText

\* page is 'home' or 'video', and on the video page a non-empty URL is stored
C27_PageInvariant ==
    /\ Page \in {"unset", "home", "video"}
    /\ pc # "rerun" => Page \in {"home", "video"}
    /\ Page = "video" => VideoUrl \notin {"unset", ""}

\* the first run sets page to 'home'; page becomes 'video' only in a run
\* the button or Enter started, with a non-empty URL, which is stored while
\* enter_pressed is cleared; such a run with an empty URL leaves page and
\* video_url alone; the back button sets page to 'home'
C27_PageSteps ==
    /\ Page = "unset" => Page' = "home"
    /\ (Page # "video" /\ Page' = "video") =>
           /\ Submit
           /\ session_state'["url_input"] # ""
           /\ VideoUrl' = session_state'["url_input"]
           /\ session_state'["enter_pressed"] = FALSE
    /\ (Submit /\ session_state'["url_input"] = "") =>
           /\ Page' = Page
           /\ VideoUrl' = VideoUrl
    /\ ClickBack => Page' = "home"

(***************************************************************************)
(* C27.  The page state machine: page starts as 'home' and is always       *)
(* 'home' or 'video'; it becomes 'video' only by a submit (button or       *)
(* Enter) with a non-empty URL, which stores the URL in video_url and      *)
(* clears enter_pressed; a submit with an empty URL changes neither page   *)
(* nor video_url; the back button sets page to 'home'; so page = 'video'   *)
(* implies that video_url is set and not empty.                            *)
(***************************************************************************)
C27_Navigation == [](C27_PageInvariant) /\ [][C27_PageSteps]_vars

\* the video page is on screen after a back to home and a second submit
C27_Witness ==
    /\ pc = "video"
    /\ Page = "video"
    /\ VideoUrl = "B"
    /\ clicked = None
    /\ "current_time" \in DOMAIN session_state

\* the representative_time of the most liked moment on the page, the
\* earliest created among equally liked ones; 0 without moments
BestMomentTime ==
    IF timeline_data = <<>> THEN 0
    ELSE LET best == CHOOSE m \in 1..Len(timeline_data) :
                        /\ \A n \in 1..Len(timeline_data) :
                               timeline_data[n].total_likes <= timeline_data[m].total_likes
                        /\ \A n \in 1..(m - 1) :
                               timeline_data[n].total_likes < timeline_data[m].total_likes
         IN  timeline_data[best].representative_time

(***************************************************************************)
(* C28.  Whenever the video page shows a video on which no timestamp       *)
(* button was clicked since it was opened from the home page, the player   *)
(* starts at the representative_time of the video's best moment, or at 0   *)
(* when the video has no moments; no offset is carried over from a video   *)
(* opened before.                                                          *)
(***************************************************************************)
C28_StartAtBest ==
    (pc = "video" /\ player # None /\ clicked = None) => player = BestMomentTime

(***************************************************************************)
(* C29.  After a click on the timestamp button of a moment with            *)
(* representative_time t, the next render of the video page starts the     *)
(* player at t, for t = 0 as for every other t.                            *)
(***************************************************************************)
C29_StartAtClicked ==
    (pc = "video" /\ player # None /\ clicked # None) => player = clicked

====
